---- MODULE Spec2Model ----
(***************************************************************************)
(* A model of the folder-routed FastAPI server: the route registrar of     *)
(* main.py and the four resource modules under api/ (users, users/address, *)
(* users/profile, products), each with its private in-memory list.         *)
(***************************************************************************)
EXTENDS Integers, Sequences, FiniteSets, TLC

VARIABLES
    users_db,       \* api/users: the list users_db
    products_db,    \* api/products: the list products_db
    profiles_db,    \* api/users/profile: the list profiles_db
    addresses_db,   \* api/users/address: the list addresses_db
    response,       \* the response to the request served last
    nops,           \* number of requests served so far
    target,         \* the resource module the client session talks to
    tree,           \* registrar: the directories under api/ and their entry files
    api_exists,     \* registrar: whether the api/ folder exists
    pending,        \* registrar: entry files rglob has not yielded yet
    mounts,         \* registrar: the include_router calls made on app, in order
    reg_pc,         \* registrar: "start", "scan" while the loop runs, then "done"
    conn,           \* event loop: each connection's position
    running,        \* event loop: the connection whose handler body is executing
    new_id          \* event loop: each create_user call's local new_id

vars == <<users_db, products_db, profiles_db, addresses_db, response, nops,
          target, tree, api_exists, pending, mounts, reg_pc, conn, running, new_id>>

crud_vars == <<users_db, products_db, profiles_db, addresses_db, response, nops, target>>
reg_vars == <<tree, api_exists, pending, mounts, reg_pc>>
loop_vars == <<conn, running, new_id>>

(***************************************************************************)
(* Bounds of the exploration.                                              *)
(***************************************************************************)
MaxOps == 4
MaxAddressOps == 2

(***************************************************************************)
(* Python helpers shared by the resource modules.                          *)
(***************************************************************************)
\* max((x for ...), default=0)
MaxOf(S) == IF S = {} THEN 0 ELSE CHOOSE m \in S : \A x \in S : x <= m

\* The set of the elements of a list.
Range(s) == {s[i] : i \in 1..Len(s)}

\* next((r for r in db if ...), None), given the indices that pass the test: the
\* first of them, 0 for None.
FirstIdx(matching) ==
    IF matching = {} THEN 0 ELSE CHOOSE i \in matching : \A j \in matching : i <= j

\* for field, value in update_data.items(): setattr(record, field, value)
SetAttrs(record, update_data) ==
    [f \in DOMAIN record |-> IF f \in DOMAIN update_data THEN update_data[f] ELSE record[f]]

\* An update that changes a copy and leaves the list as it was.
Replace_copy(db, i, record) == db

\* The record at index i replaced, the others kept (mutation in place).
Replace(db, i, record) == [db EXCEPT ![i] = record]

\* raise HTTPException(status_code=..., detail=...): the collection is untouched.
HTTPException(status_code, detail, db) ==
    [status |-> status_code, detail |-> detail, body |-> <<>>, db |-> db]

\* A handler's return: 200 with the returned records and the collection it leaves.
Return(body, db) == [status |-> 200, detail |-> "", body |-> body, db |-> db]

\* The served request (the handler called, its id arguments, the request body) and
\* what the client gets back.
Served(handler, arg1, arg2, input, res) ==
    [handler |-> handler, arg1 |-> arg1, arg2 |-> arg2, input |-> input,
     method |-> "", path |-> <<>>,
     status |-> res.status, detail |-> res.detail, body |-> res.body]

(***************************************************************************)
(* api/users                                                               *)
(***************************************************************************)
users_seed ==
    << [id |-> 1, name |-> "John Doe", email |-> "john@example.com", active |-> TRUE],
       [id |-> 2, name |-> "Jane Smith", email |-> "jane@example.com", active |-> TRUE],
       [id |-> 3, name |-> "Bob Johnson", email |-> "bob@example.com", active |-> TRUE] >>

\* Request bodies a client sends: UserCreate, and UserUpdate with the fields it sets.
UserCreates == { [name |-> "X", email |-> "x@y.com"] }
UserUpdates ==
    { <<>>,
      [name |-> "Neo"],
      [active |-> FALSE],
      [email |-> "neo@example.com", active |-> TRUE],
      [name |-> "Neo", email |-> "neo@example.com", active |-> FALSE] }

get_user(user_id) ==
    LET i == FirstIdx({k \in DOMAIN users_db : users_db[k].id = user_id})
    IN  IF i = 0 THEN HTTPException(404, "User not found", users_db)
        ELSE Return(<<users_db[i]>>, users_db)

\* A create that numbers the new record by the length of the list.
create_user_by_len(user) ==
    LET nid == Len(users_db) + 1
        new_user == [id |-> nid, name |-> user.name, email |-> user.email, active |-> TRUE]
    IN  Return(<<new_user>>, Append(users_db, new_user))

create_user(user) ==
    LET nid == MaxOf({u.id : u \in Range(users_db)}) + 1
        new_user == [id |-> nid, name |-> user.name, email |-> user.email, active |-> TRUE]
    IN  Return(<<new_user>>, Append(users_db, new_user))

update_user(user_id, user_update) ==
    LET i == FirstIdx({k \in DOMAIN users_db : users_db[k].id = user_id})
    IN  IF i = 0 THEN HTTPException(404, "User not found", users_db)
        ELSE LET user == SetAttrs(users_db[i], user_update)
             IN  Return(<<user>>, Replace(users_db, i, user))

\* A delete that answers without rebinding users_db.
delete_user_keeps(user_id) ==
    LET i == FirstIdx({k \in DOMAIN users_db : users_db[k].id = user_id})
    IN  IF i = 0 THEN HTTPException(404, "User not found", users_db)
        ELSE Return(<<>>, users_db)

delete_user(user_id) ==
    LET i == FirstIdx({k \in DOMAIN users_db : users_db[k].id = user_id})
    IN  IF i = 0 THEN HTTPException(404, "User not found", users_db)
        ELSE Return(<<>>, SelectSeq(users_db, LAMBDA u : u.id # user_id))

\* The ids a client asks for: every id in use, the holes below, and the next free one.
IdInputs(ids) == 1..(MaxOf(ids) + 1)

UsersServe(handler, arg1, input, res) ==
    /\ nops < MaxOps
    /\ nops' = nops + 1
    /\ users_db' = res.db
    /\ response' = Served(handler, arg1, 0, input, res)
    /\ UNCHANGED <<products_db, profiles_db, addresses_db, target, reg_vars, loop_vars>>

UserIds == IdInputs({u.id : u \in Range(users_db)})

GetUser == \E user_id \in UserIds : UsersServe("get_user", user_id, <<>>, get_user(user_id))
CreateUser == \E user \in UserCreates : UsersServe("create_user", 0, user, create_user(user))
UpdateUser ==
    \E user_id \in UserIds, user_update \in UserUpdates :
        UsersServe("update_user", user_id, user_update, update_user(user_id, user_update))
DeleteUser ==
    \E user_id \in UserIds : UsersServe("delete_user", user_id, <<>>, delete_user(user_id))

(***************************************************************************)
(* api/products (prices in cents)                                          *)
(***************************************************************************)
products_seed ==
    << [id |-> 1, name |-> "Laptop", description |-> "High-performance laptop",
        price |-> 99999, category |-> "Electronics", in_stock |-> TRUE],
       [id |-> 2, name |-> "Coffee Mug", description |-> "Ceramic coffee mug",
        price |-> 1599, category |-> "Home", in_stock |-> TRUE],
       [id |-> 3, name |-> "Book", description |-> "Programming guide",
        price |-> 2999, category |-> "Books", in_stock |-> TRUE] >>

ProductCreates ==
    { [name |-> "Pen", description |-> "Blue pen", price |-> 199, category |-> "Office"] }
ProductUpdates ==
    { <<>>,
      [price |-> 100],
      [in_stock |-> FALSE],
      [name |-> "Tablet", category |-> "Home"],
      [name |-> "Tablet", description |-> "A tablet", price |-> 100,
       category |-> "Home", in_stock |-> FALSE] }

create_product(product) ==
    LET nid == MaxOf({p.id : p \in Range(products_db)}) + 1
        new_product == [id |-> nid, name |-> product.name,
                        description |-> product.description, price |-> product.price,
                        category |-> product.category, in_stock |-> TRUE]
    IN  Return(<<new_product>>, Append(products_db, new_product))

update_product(product_id, product_update) ==
    LET i == FirstIdx({k \in DOMAIN products_db : products_db[k].id = product_id})
    IN  IF i = 0 THEN HTTPException(404, "Product not found", products_db)
        ELSE LET product == SetAttrs(products_db[i], product_update)
             IN  Return(<<product>>, Replace(products_db, i, product))

delete_product(product_id) ==
    LET i == FirstIdx({k \in DOMAIN products_db : products_db[k].id = product_id})
    IN  IF i = 0 THEN HTTPException(404, "Product not found", products_db)
        ELSE Return(<<>>, SelectSeq(products_db, LAMBDA p : p.id # product_id))

ProductsServe(handler, arg1, input, res) ==
    /\ nops < MaxOps
    /\ nops' = nops + 1
    /\ products_db' = res.db
    /\ response' = Served(handler, arg1, 0, input, res)
    /\ UNCHANGED <<users_db, profiles_db, addresses_db, target, reg_vars, loop_vars>>

ProductIds == IdInputs({p.id : p \in Range(products_db)})

CreateProduct ==
    \E product \in ProductCreates : ProductsServe("create_product", 0, product, create_product(product))
UpdateProduct ==
    \E product_id \in ProductIds, product_update \in ProductUpdates :
        ProductsServe("update_product", product_id, product_update, update_product(product_id, product_update))
DeleteProduct ==
    \E product_id \in ProductIds :
        ProductsServe("delete_product", product_id, <<>>, delete_product(product_id))

(***************************************************************************)
(* api/users/profile                                                       *)
(***************************************************************************)
None == "<None>"

profiles_seed ==
    << [user_id |-> 1, bio |-> "Software engineer", avatar_url |-> None,
        location |-> "San Francisco", website |-> "https://johndoe.dev"],
       [user_id |-> 2, bio |-> "Product manager", avatar_url |-> None,
        location |-> "New York", website |-> None],
       [user_id |-> 3, bio |-> "Designer", avatar_url |-> "https://example.com/avatar3.jpg",
        location |-> "Los Angeles", website |-> None] >>

\* The query parameters of a create: bio, and the optional ones left out or given.
ProfileCreates ==
    { [bio |-> "Hello", avatar_url |-> None, location |-> None, website |-> None],
      [bio |-> "Hello", avatar_url |-> None, location |-> "Paris", website |-> None] }
ProfileUpdates ==
    { <<>>,
      [bio |-> "Changed"],
      [location |-> "Berlin", website |-> "https://example.org"],
      [bio |-> "Changed", avatar_url |-> "https://example.org/a.png",
       location |-> "Berlin", website |-> "https://example.org"] }

create_user_profile(user_id, params) ==
    LET i == FirstIdx({k \in DOMAIN profiles_db : profiles_db[k].user_id = user_id})
        new_profile == [user_id |-> user_id, bio |-> params.bio,
                        avatar_url |-> params.avatar_url, location |-> params.location,
                        website |-> params.website]
    IN  IF i # 0 THEN HTTPException(400, "Profile already exists", profiles_db)
        ELSE Return(<<new_profile>>, Append(profiles_db, new_profile))

update_user_profile(user_id, profile_update) ==
    LET i == FirstIdx({k \in DOMAIN profiles_db : profiles_db[k].user_id = user_id})
    IN  IF i = 0 THEN HTTPException(404, "Profile not found", profiles_db)
        ELSE LET profile == SetAttrs(profiles_db[i], profile_update)
             IN  Return(<<profile>>, Replace(profiles_db, i, profile))

delete_user_profile(user_id) ==
    LET i == FirstIdx({k \in DOMAIN profiles_db : profiles_db[k].user_id = user_id})
    IN  IF i = 0 THEN HTTPException(404, "Profile not found", profiles_db)
        ELSE Return(<<>>, SelectSeq(profiles_db, LAMBDA p : p.user_id # user_id))

ProfilesServe(handler, arg1, input, res) ==
    /\ nops < MaxOps
    /\ nops' = nops + 1
    /\ profiles_db' = res.db
    /\ response' = Served(handler, arg1, 0, input, res)
    /\ UNCHANGED <<users_db, products_db, addresses_db, target, reg_vars, loop_vars>>

ProfileIds == IdInputs({p.user_id : p \in Range(profiles_db)})

CreateUserProfile ==
    \E user_id \in ProfileIds, params \in ProfileCreates :
        ProfilesServe("create_user_profile", user_id, params, create_user_profile(user_id, params))
UpdateUserProfile ==
    \E user_id \in ProfileIds, profile_update \in ProfileUpdates :
        ProfilesServe("update_user_profile", user_id, profile_update, update_user_profile(user_id, profile_update))
DeleteUserProfile ==
    \E user_id \in ProfileIds :
        ProfilesServe("delete_user_profile", user_id, <<>>, delete_user_profile(user_id))

(***************************************************************************)
(* api/users/address                                                       *)
(***************************************************************************)
addresses_seed ==
    << [id |-> 1, user_id |-> 1, street |-> "123 Main St", city |-> "San Francisco",
        state |-> "CA", zip_code |-> "94102", country |-> "USA", is_primary |-> TRUE],
       [id |-> 2, user_id |-> 1, street |-> "456 Work Ave", city |-> "San Francisco",
        state |-> "CA", zip_code |-> "94105", country |-> "USA", is_primary |-> FALSE],
       [id |-> 3, user_id |-> 2, street |-> "789 Oak St", city |-> "New York",
        state |-> "NY", zip_code |-> "10001", country |-> "USA", is_primary |-> TRUE] >>

AddressCreates ==
    { [street |-> "1 New Rd", city |-> "Austin", state |-> "TX", zip_code |-> "73301",
       country |-> "USA", is_primary |-> p] : p \in BOOLEAN }
AddressUpdates ==
    { <<>>,
      [is_primary |-> TRUE],
      [is_primary |-> FALSE],
      [street |-> "9 Elm St", city |-> "Boston"],
      [street |-> "9 Elm St", city |-> "Boston", state |-> "MA", zip_code |-> "02101",
       country |-> "USA", is_primary |-> TRUE] }

\* A check against the users collection itself.
user_exists_live(user_id) == \E u \in Range(users_db) : u.id = user_id

\* For demo, assume users 1, 2, 3 exist.
user_exists(user_id) == user_id \in {1, 2, 3}

\* A loop that clears nothing.
ClearPrimary_skip(db, matching) == db

\* for addr in addresses_db: if ...: addr.is_primary = False, given the indices
\* that pass the test.
ClearPrimary(db, matching) ==
    [i \in 1..Len(db) |-> IF i \in matching THEN [db[i] EXCEPT !.is_primary = FALSE] ELSE db[i]]

\* update_data.get('is_primary'): the value when the field was sent, else None (falsy).
GetIsPrimary(update_data) ==
    IF "is_primary" \in DOMAIN update_data THEN update_data.is_primary ELSE FALSE

\* next((addr for addr in addresses_db
\*       if addr.id == address_id and addr.user_id == user_id), None)
AddressIdx(user_id, address_id) ==
    FirstIdx({k \in DOMAIN addresses_db :
                addresses_db[k].id = address_id /\ addresses_db[k].user_id = user_id})

get_user_addresses(user_id) ==
    IF ~user_exists(user_id) THEN HTTPException(404, "User not found", addresses_db)
    ELSE Return(SelectSeq(addresses_db, LAMBDA addr : addr.user_id = user_id), addresses_db)

get_user_address(user_id, address_id) ==
    LET i == AddressIdx(user_id, address_id)
    IN  IF ~user_exists(user_id) THEN HTTPException(404, "User not found", addresses_db)
        ELSE IF i = 0 THEN HTTPException(404, "Address not found", addresses_db)
        ELSE Return(<<addresses_db[i]>>, addresses_db)

\* A create whose clearing loop forgets the test on user_id.
create_user_address_clears_all(address, user_id) ==
    LET cleared == IF address.is_primary
                   THEN ClearPrimary(addresses_db, DOMAIN addresses_db)
                   ELSE addresses_db
        nid == MaxOf({addr.id : addr \in Range(cleared)}) + 1
        new_address == [id |-> nid, user_id |-> user_id, street |-> address.street,
                        city |-> address.city, state |-> address.state,
                        zip_code |-> address.zip_code, country |-> address.country,
                        is_primary |-> address.is_primary]
    IN  IF ~user_exists(user_id) THEN HTTPException(404, "User not found", addresses_db)
        ELSE Return(<<new_address>>, Append(cleared, new_address))

create_user_address(address, user_id) ==
    LET cleared == IF address.is_primary
                   THEN ClearPrimary(addresses_db,
                                     {k \in DOMAIN addresses_db :
                                        addresses_db[k].user_id = user_id})
                   ELSE addresses_db
        nid == MaxOf({addr.id : addr \in Range(cleared)}) + 1
        new_address == [id |-> nid, user_id |-> user_id, street |-> address.street,
                        city |-> address.city, state |-> address.state,
                        zip_code |-> address.zip_code, country |-> address.country,
                        is_primary |-> address.is_primary]
    IN  IF ~user_exists(user_id) THEN HTTPException(404, "User not found", addresses_db)
        ELSE Return(<<new_address>>, Append(cleared, new_address))

update_user_address(address_update, user_id, address_id) ==
    LET i == AddressIdx(user_id, address_id)
        cleared == IF GetIsPrimary(address_update)
                   THEN ClearPrimary(addresses_db,
                                     {k \in DOMAIN addresses_db :
                                        /\ addresses_db[k].user_id = user_id
                                        /\ addresses_db[k].id # address_id})
                   ELSE addresses_db
    IN  IF ~user_exists(user_id) THEN HTTPException(404, "User not found", addresses_db)
        ELSE IF i = 0 THEN HTTPException(404, "Address not found", addresses_db)
        ELSE LET address == SetAttrs(cleared[i], address_update)
             IN  Return(<<address>>, Replace(cleared, i, address))

delete_user_address(user_id, address_id) ==
    LET i == AddressIdx(user_id, address_id)
    IN  IF ~user_exists(user_id) THEN HTTPException(404, "User not found", addresses_db)
        ELSE IF i = 0 THEN HTTPException(404, "Address not found", addresses_db)
        ELSE Return(<<>>, SelectSeq(addresses_db,
                                 LAMBDA addr : ~(addr.id = address_id /\ addr.user_id = user_id)))

get_user_primary_address(user_id) ==
    LET i == FirstIdx({k \in DOMAIN addresses_db :
                         addresses_db[k].user_id = user_id /\ addresses_db[k].is_primary})
    IN  IF ~user_exists(user_id) THEN HTTPException(404, "User not found", addresses_db)
        ELSE IF i = 0
        THEN HTTPException(404, "No primary address found for user", addresses_db)
        ELSE Return(<<addresses_db[i]>>, addresses_db)

(***************************************************************************)
(* The address router: its routes in the order the decorators add them,    *)
(* and the dispatch of a request path (relative to the mount prefix        *)
(* /api/users/address) to the first route that matches.                    *)
(***************************************************************************)
Param(name) == [kind |-> "param", name |-> name]
Literal(text) == [kind |-> "literal", name |-> text]

address_routes ==
    << [method |-> "GET", path |-> <<Param("user_id")>>, endpoint |-> "get_user_addresses"],
       [method |-> "GET", path |-> <<Param("user_id"), Param("address_id")>>,
        endpoint |-> "get_user_address"],
       [method |-> "POST", path |-> <<Param("user_id")>>, endpoint |-> "create_user_address"],
       [method |-> "PUT", path |-> <<Param("user_id"), Param("address_id")>>,
        endpoint |-> "update_user_address"],
       [method |-> "DELETE", path |-> <<Param("user_id"), Param("address_id")>>,
        endpoint |-> "delete_user_address"],
       [method |-> "GET", path |-> <<Param("user_id"), Literal("primary")>>,
        endpoint |-> "get_user_primary_address"] >>

\* A route's path matches segment by segment: a parameter takes any segment, a
\* literal only itself.
PathMatches(pattern, path) ==
    /\ Len(pattern) = Len(path)
    /\ \A i \in 1..Len(path) : pattern[i].kind = "param" \/ pattern[i].name = path[i]

\* The index of the route that serves the request: the first whose path and method
\* both match; 0 when none does.
MatchRoute(routes, method, path) ==
    FirstIdx({k \in DOMAIN routes :
                routes[k].method = method /\ PathMatches(routes[k].path, path)})

\* int(segment) for a path parameter declared int: NotInt when it does not parse.
NotInt == -1
IntLiterals == <<"1", "2", "3", "4", "5", "6", "7", "8", "9">>
int(segment) ==
    IF \E n \in 1..Len(IntLiterals) : IntLiterals[n] = segment
    THEN CHOOSE n \in 1..Len(IntLiterals) : IntLiterals[n] = segment
    ELSE NotInt

\* The value of path parameter `name` of `route` in `path` (0 when the route
\* declares no such parameter).
PathParam(route, path, name) ==
    LET i == FirstIdx({k \in DOMAIN route.path :
                         route.path[k].kind = "param" /\ route.path[k].name = name})
    IN  IF i = 0 THEN 0 ELSE int(path[i])

\* The endpoint called with the validated arguments.
CallAddressEndpoint(endpoint, user_id, address_id, body) ==
    CASE endpoint = "get_user_addresses" -> get_user_addresses(user_id)
      [] endpoint = "get_user_address" -> get_user_address(user_id, address_id)
      [] endpoint = "create_user_address" -> create_user_address(body, user_id)
      [] endpoint = "update_user_address" -> update_user_address(body, user_id, address_id)
      [] endpoint = "delete_user_address" -> delete_user_address(user_id, address_id)
      [] endpoint = "get_user_primary_address" -> get_user_primary_address(user_id)

\* One request served by the address router: the response and the collection left.
\* No route's path matching is 404, a path matching under another method only is
\* 405, a path parameter that is no integer is 422; otherwise the endpoint answers.
AddressDispatch(routes, method, path, body) ==
    LET r == MatchRoute(routes, method, path)
        route == routes[r]
        user_id == PathParam(route, path, "user_id")
        address_id == PathParam(route, path, "address_id")
        Refused(handler, status_code, detail) ==
            [resp |-> Served(handler, 0, 0, body,
                             HTTPException(status_code, detail, addresses_db)),
             db |-> addresses_db]
    IN  IF r = 0
        THEN IF \E k \in 1..Len(routes) : PathMatches(routes[k].path, path)
             THEN Refused("", 405, "Method Not Allowed")
             ELSE Refused("", 404, "Not Found")
        ELSE IF user_id = NotInt \/ address_id = NotInt
        THEN Refused(route.endpoint, 422, "value is not a valid integer")
        ELSE LET res == CallAddressEndpoint(route.endpoint, user_id, address_id, body)
             IN  [resp |-> Served(route.endpoint, user_id, address_id, body, res),
                  db |-> res.db]

\* The requests a client sends: a method, a path of one or two segments, and the
\* JSON body the method carries.  Every method is tried on the paths its routes
\* take and on one path they do not.
UserSegments == {"1", "2", "3", "4"}
AddressSegments == {"1", "2", "3", "4", "primary"}
ItemPaths == {<<u, a>> : u \in UserSegments, a \in AddressSegments}
UserPaths == {<<u>> : u \in UserSegments}
AddressRequests ==
    {[method |-> "GET", path |-> p, body |-> <<>>] : p \in UserPaths \cup ItemPaths}
    \cup {[method |-> "POST", path |-> p, body |-> b] :
            p \in UserPaths \cup {<<"1", "1">>}, b \in AddressCreates}
    \cup {[method |-> "PUT", path |-> p, body |-> b] :
            p \in ItemPaths \cup {<<"1">>}, b \in AddressUpdates}
    \cup {[method |-> "DELETE", path |-> p, body |-> <<>>] : p \in ItemPaths \cup {<<"1">>}}

AddressRequest ==
    \E req \in AddressRequests :
        LET out == AddressDispatch(address_routes, req.method, req.path, req.body)
        IN  /\ nops < MaxAddressOps
            /\ nops' = nops + 1
            /\ addresses_db' = out.db
            /\ response' = [out.resp EXCEPT !.method = req.method, !.path = req.path]
            /\ UNCHANGED <<users_db, products_db, profiles_db, target, reg_vars, loop_vars>>

NoResponse ==
    [handler |-> "", arg1 |-> 0, arg2 |-> 0, input |-> <<>>,
     method |-> "", path |-> <<>>, status |-> 0, detail |-> "", body |-> <<>>]

InitCrud ==
    /\ users_db = users_seed
    /\ products_db = products_seed
    /\ profiles_db = profiles_seed
    /\ addresses_db = addresses_seed
    /\ response = NoResponse
    /\ nops = 0

(***************************************************************************)
(* main.py: the route registrar.                                           *)
(*                                                                         *)
(* A directory under api/ is its path relative to api/ (<<>> is api/       *)
(* itself).  tree maps each directory to its entry file __init__.py:       *)
(* NoEntry when the directory has none, else what executing the file does  *)
(* (raise, or bind the names router and app).                              *)
(***************************************************************************)
Dirs == { <<>>, <<"users">>, <<"users", "address">>, <<"products">> }

NoEntry == [entry |-> FALSE, raises |-> FALSE, router |-> FALSE, app |-> FALSE]
EntryFiles ==
    { [entry |-> TRUE, raises |-> TRUE, router |-> FALSE, app |-> FALSE],
      [entry |-> TRUE, raises |-> FALSE, router |-> FALSE, app |-> FALSE],
      [entry |-> TRUE, raises |-> FALSE, router |-> TRUE, app |-> FALSE],
      [entry |-> TRUE, raises |-> FALSE, router |-> FALSE, app |-> TRUE],
      [entry |-> TRUE, raises |-> FALSE, router |-> TRUE, app |-> TRUE] }

\* "/".join(parts)
RECURSIVE Join(_)
Join(parts) ==
    IF Len(parts) = 0 THEN ""
    ELSE IF Len(parts) = 1 THEN parts[1]
    ELSE parts[1] \o "/" \o Join(Tail(parts))

\* A registrar that builds the prefix from the directory's own name only.
route_prefix_leaf(relative_path) ==
    IF relative_path = <<>> THEN "/api" ELSE "/api/" \o relative_path[Len(relative_path)]

\* The prefix and tag register_routes derives from an entry file's directory.
route_prefix(relative_path) ==
    IF relative_path = <<>> THEN "/api" ELSE "/api/" \o Join(relative_path)

tag_name(relative_path) ==
    IF relative_path = <<>> THEN "api" ELSE relative_path[Len(relative_path)]

\* load_router_from_file: the object bound to router, else the one bound to app,
\* else None; an exception raised while the module executes is caught and gives
\* None as well.  The result is the name the collection was taken from.
load_router_from_file(file) ==
    IF file.raises THEN "None"
    ELSE IF file.router THEN "router"
    ELSE IF file.app THEN "app"
    ELSE "None"

\* The body of the loop for one entry file: the mounts after it.
\* `if router:` mounts the collection under the derived prefix and tag.
visit_entry(ms, relative_path, file) ==
    LET router == load_router_from_file(file)
    IN  IF router # "None"
        THEN Append(ms, [dir |-> relative_path, export |-> router,
                         prefix |-> route_prefix(relative_path),
                         tags |-> <<tag_name(relative_path)>>])
        ELSE ms

\* A registrar whose try/except wraps the whole loop: a module that gives no
\* router ends the scan.
remaining_after_abort(rest, mounted) == IF mounted THEN rest ELSE {}

\* The entry files the loop still visits after one whose load failed or gave no
\* router: the try/except sits inside the loop, so all the remaining ones.
remaining_after(rest, mounted) == rest

\* register_routes starts: a missing api/ folder ends it at once, else rglob finds
\* every __init__.py below api/.
RegisterStart ==
    /\ reg_pc = "start"
    /\ IF api_exists
       THEN /\ pending' = {d \in Dirs : tree[d].entry}
            /\ reg_pc' = "scan"
       ELSE /\ pending' = {}
            /\ reg_pc' = "done"
    /\ UNCHANGED <<tree, api_exists, mounts, crud_vars, loop_vars>>

\* One iteration of the loop, on whichever entry file rglob yields next.
RegisterEntry ==
    /\ reg_pc = "scan"
    /\ \E d \in pending :
        LET ms == visit_entry(mounts, d, tree[d])
        IN  /\ mounts' = ms
            /\ pending' = remaining_after(pending \ {d}, ms # mounts)
    /\ UNCHANGED <<tree, api_exists, reg_pc, crud_vars, loop_vars>>

\* The loop is exhausted: register_routes returns and the server starts.
RegisterDone ==
    /\ reg_pc = "scan"
    /\ pending = {}
    /\ reg_pc' = "done"
    /\ UNCHANGED <<tree, api_exists, pending, mounts, crud_vars, loop_vars>>

\* The registrar at rest, for the specifications of the request handlers: the
\* repository's own tree, registered.
repo_tree ==
    [d \in Dirs |-> IF d = <<>> THEN NoEntry
                    ELSE [entry |-> TRUE, raises |-> FALSE, router |-> TRUE, app |-> FALSE]]

InitReg ==
    /\ tree = repo_tree
    /\ api_exists = TRUE
    /\ pending = {}
    /\ mounts = <<>>
    /\ reg_pc = "done"

(***************************************************************************)
(* The event loop serving create_user and delete_user.  Both are           *)
(* coroutines (async def) with no await in their bodies: once the loop     *)
(* has started a handler body, it starts no other before that body ends.   *)
(* A handler body is two steps: the read of users_db, then the write.      *)
(***************************************************************************)
MaxClients == 2
Clients == 1..MaxClients

\* Handlers run on worker threads: a body may start while another executes.
LoopFree_threads == TRUE

\* The loop may start a handler body only when none is executing.
LoopFree == running = 0

\* A request arrives on an idle connection and its handler is scheduled.
Receive(c) ==
    /\ conn[c].pc = "idle"
    /\ nops < MaxOps
    /\ nops' = nops + 1
    /\ \E h \in {"create_user", "delete_user"}, user_id \in UserIds :
         conn' = [conn EXCEPT ![c] = [pc |-> "ready", handler |-> h,
                                      arg |-> IF h = "create_user" THEN 0 ELSE user_id]]
    /\ UNCHANGED <<users_db, products_db, profiles_db, addresses_db, response, target,
                   running, new_id, reg_vars>>

\* create_user, line 50: new_id = max(ids, default=0) + 1
CreateRead(c) ==
    /\ conn[c].pc = "ready" /\ conn[c].handler = "create_user"
    /\ LoopFree
    /\ running' = c
    /\ new_id' = [new_id EXCEPT ![c] = MaxOf({u.id : u \in Range(users_db)}) + 1]
    /\ conn' = [conn EXCEPT ![c].pc = "read"]
    /\ UNCHANGED <<crud_vars, reg_vars>>

\* create_user, lines 51-53: build the record with the id read, append, return.
CreateAppend(c) ==
    /\ conn[c].pc = "read" /\ conn[c].handler = "create_user"
    /\ \E user \in UserCreates :
         LET new_user == [id |-> new_id[c], name |-> user.name, email |-> user.email,
                          active |-> TRUE]
         IN  /\ users_db' = Append(users_db, new_user)
             /\ response' = Served("create_user", 0, 0, user,
                                   Return(<<new_user>>, Append(users_db, new_user)))
    /\ running' = 0
    /\ conn' = [conn EXCEPT ![c].pc = "idle"]
    /\ UNCHANGED <<products_db, profiles_db, addresses_db, nops, target, new_id, reg_vars>>

\* delete_user: a body with no state of its own between its read and its write.
DeleteBody(c) ==
    /\ conn[c].pc = "ready" /\ conn[c].handler = "delete_user"
    /\ LoopFree
    /\ LET res == delete_user(conn[c].arg)
       IN  /\ users_db' = res.db
           /\ response' = Served("delete_user", conn[c].arg, 0, <<>>, res)
    /\ conn' = [conn EXCEPT ![c].pc = "idle"]
    /\ UNCHANGED <<products_db, profiles_db, addresses_db, nops, target, running, new_id,
                   reg_vars>>

InitLoop ==
    /\ conn = [c \in Clients |-> [pc |-> "idle", handler |-> "", arg |-> 0]]
    /\ running = 0
    /\ new_id = [c \in Clients |-> 0]

Init == InitCrud /\ InitReg /\ InitLoop /\ target \in {"users", "products", "profile", "address"}

Next ==
    \/ target = "users" /\ (GetUser \/ CreateUser \/ UpdateUser \/ DeleteUser)
    \/ target = "products" /\ (CreateProduct \/ UpdateProduct \/ DeleteProduct)
    \/ target = "profile"
       /\ (CreateUserProfile \/ UpdateUserProfile \/ DeleteUserProfile)
    \/ target = "address" /\ AddressRequest

Spec == Init /\ [][Next]_vars

\* The users module alone.
InitUsers == InitCrud /\ InitReg /\ InitLoop /\ target = "users"

NextUsers == GetUser \/ CreateUser \/ UpdateUser \/ DeleteUser

SpecUsers == InitUsers /\ [][NextUsers]_vars

\* The address router served while users are created and deleted beside it.
InitAddress == InitCrud /\ InitReg /\ InitLoop /\ target = "address"

NextAddress == nops < MaxAddressOps /\ (AddressRequest \/ CreateUser \/ DeleteUser)

SpecAddress == InitAddress /\ [][NextAddress]_vars

\* register_routes run at startup on any tree of entry files, in any order.
InitRegister ==
    /\ InitCrud /\ InitLoop /\ target = "users"
    /\ api_exists \in BOOLEAN
    /\ tree \in [Dirs -> EntryFiles \cup {NoEntry}]
    /\ (~api_exists => tree = [d \in Dirs |-> NoEntry])
    /\ pending = {}
    /\ mounts = <<>>
    /\ reg_pc = "start"

NextRegister == RegisterStart \/ RegisterEntry \/ RegisterDone

SpecRegister == InitRegister /\ [][NextRegister]_vars

(***************************************************************************)
(* Claims about the registrar (SpecRegister).                              *)
(***************************************************************************)
\* An entry file that loads and exports a handler collection.
Qualifies(file) == file.entry /\ ~file.raises /\ (file.router \/ file.app)

\* The directory-to-route table of the interface contract.
TableMount(d) ==
    CASE d = <<>> -> [dir |-> d, prefix |-> "/api", tags |-> <<"api">>]
      [] d = <<"users">> -> [dir |-> d, prefix |-> "/api/users", tags |-> <<"users">>]
      [] d = <<"users", "address">> ->
            [dir |-> d, prefix |-> "/api/users/address", tags |-> <<"address">>]
      [] d = <<"products">> -> [dir |-> d, prefix |-> "/api/products", tags |-> <<"products">>]

MountsMade == {[dir |-> m.dir, prefix |-> m.prefix, tags |-> m.tags] : m \in Range(mounts)}

\* C1: once register_routes has returned, whatever the tree and the order of the
\* visits, the mounts made are exactly one per entry file that loads and exports a
\* handler collection, each with the table's prefix and tag; a directory without an
\* entry file has no mount.
C1_ExactlyTheQualifyingMounts ==
    reg_pc = "done" =>
        /\ MountsMade = {TableMount(d) : d \in {e \in Dirs : api_exists /\ Qualifies(tree[e])}}
        /\ Len(mounts) = Cardinality(MountsMade)
        /\ \A d \in Dirs : ~tree[d].entry => \A m \in Range(mounts) : m.dir # d

\* C1's case: a finished scan of a tree with the root entry and a nested entry
\* mounted and a directory without an entry file.
C1_Witness ==
    /\ reg_pc = "done"
    /\ \E m \in Range(mounts) : m.dir = <<"users", "address">>
    /\ \E m \in Range(mounts) : m.dir = <<>>
    /\ ~tree[<<"users">>].entry

\* C2: a module whose entry file raises during load, or exports no handler
\* collection, is skipped and every other qualifying module is still mounted; the
\* scan is never cut short: until register_routes has returned it can take a step.
C2_FailingModuleIsSkipped ==
    /\ reg_pc = "done" =>
          \A d \in Dirs :
              /\ (api_exists /\ Qualifies(tree[d])) => \E m \in Range(mounts) : m.dir = d
              /\ ~Qualifies(tree[d]) => \A m \in Range(mounts) : m.dir # d
    /\ reg_pc # "done" => ENABLED NextRegister

\* C2's case: the scan has finished, one module raised, one exported nothing, and
\* the two others are mounted.
C2_Witness ==
    /\ reg_pc = "done"
    /\ tree[<<"users">>].raises
    /\ tree[<<>>].entry /\ ~tree[<<>>].raises /\ ~Qualifies(tree[<<>>])
    /\ Len(mounts) = 2
    /\ mounts[2].dir = <<"users", "address">>

(***************************************************************************)
(* Claims about the address router (SpecAddress).                          *)
(***************************************************************************)
PrimaryOf(db, user_id) == {k \in DOMAIN db : db[k].user_id = user_id /\ db[k].is_primary}

\* C3: GET /api/users/address/{user_id}/primary for user_id 1, 2 or 3 is served by
\* get_user_primary_address: it returns the user's primary address, or 404 "No
\* primary address found for user" when the user has none.
C3_PrimaryRouteServed ==
    (/\ response.method = "GET"
     /\ Len(response.path) = 2
     /\ response.path[1] \in {"1", "2", "3"}
     /\ response.path[2] = "primary")
    => /\ response.handler = "get_user_primary_address"
       /\ LET prim == PrimaryOf(addresses_db, int(response.path[1]))
          IN  IF prim = {}
              THEN /\ response.status = 404
                   /\ response.detail = "No primary address found for user"
              ELSE /\ response.status = 200
                   /\ \E k \in prim : response.body = <<addresses_db[k]>>

\* C5: a successful create_user_address for user u with is_primary = true leaves
\* every address u had with is_primary = false, the new address the only primary
\* of u, and the is_primary of every other user's address as it was.
C5_CreatePrimaryStep ==
    (/\ response'.handler = "create_user_address"
     /\ response'.status = 200
     /\ response'.input.is_primary)
    => /\ Len(addresses_db') = Len(addresses_db) + 1
       /\ \A k \in DOMAIN addresses_db :
            /\ addresses_db'[k].id = addresses_db[k].id
            /\ addresses_db'[k].user_id = addresses_db[k].user_id
            /\ IF addresses_db[k].user_id = response'.arg1
               THEN ~addresses_db'[k].is_primary
               ELSE addresses_db'[k].is_primary = addresses_db[k].is_primary
       /\ response'.body = <<addresses_db'[Len(addresses_db')]>>
       /\ response'.body[1].user_id = response'.arg1
       /\ PrimaryOf(addresses_db', response'.arg1) = {Len(addresses_db')}

C5_CreatePrimaryClearsOthers == [][C5_CreatePrimaryStep]_vars

\* C5's case: user 1, whose seeded address 1 was primary, has just been given a
\* new primary address while user 2 kept its own.
C5_Witness ==
    /\ response.handler = "create_user_address"
    /\ response.status = 200
    /\ response.input.is_primary
    /\ response.arg1 = 1
    /\ \E k \in DOMAIN addresses_db : addresses_db[k].id = 1 /\ ~addresses_db[k].is_primary
    /\ \E k \in DOMAIN addresses_db : addresses_db[k].user_id = 2 /\ addresses_db[k].is_primary

\* The calls of the address operations: every endpoint, on user ids inside and
\* outside {1, 2, 3}, with the bodies the endpoint takes.
AddressCalls ==
    {[endpoint |-> e, user_id |-> u, address_id |-> 0, body |-> <<>>] :
        e \in {"get_user_addresses", "get_user_primary_address"}, u \in 0..5}
    \cup {[endpoint |-> e, user_id |-> u, address_id |-> a, body |-> <<>>] :
            e \in {"get_user_address", "delete_user_address"}, u \in 0..5, a \in 1..4}
    \cup {[endpoint |-> "create_user_address", user_id |-> u, address_id |-> 0, body |-> b] :
            u \in 0..5, b \in AddressCreates}
    \cup {[endpoint |-> "update_user_address", user_id |-> u, address_id |-> a, body |-> b] :
            u \in 0..5, a \in 1..4, b \in AddressUpdates}

\* What a call answers and the addresses collection it leaves.
AddressOutcome(call) ==
    CallAddressEndpoint(call.endpoint, call.user_id, call.address_id, call.body)

AddressEndpoints == {address_routes[k].endpoint : k \in DOMAIN address_routes}

\* C6: a step that changes the users collection changes the outcome (the response
\* and the addresses collection left) of no address call; and an address endpoint
\* that was called answers 404 "User not found" exactly when its user_id is
\* outside {1, 2, 3}, whatever the users collection holds.
C6_Step ==
    /\ users_db' # users_db =>
         \A call \in AddressCalls : AddressOutcome(call)' = AddressOutcome(call)
    /\ (response'.handler \in AddressEndpoints /\ response'.status # 422) =>
         ((response'.status = 404 /\ response'.detail = "User not found")
            <=> response'.arg1 \notin {1, 2, 3})

C9_AtMostOnePrimary ==
    \A u \in {a.user_id : a \in Range(addresses_db)} :
        Cardinality(PrimaryOf(addresses_db, u)) <= 1

\* C9's case: user 1's second address has been made primary by an update, beside
\* the seeded one that was.
C9_Witness ==
    /\ response.handler = "update_user_address"
    /\ response.status = 200
    /\ response.arg1 = 1 /\ response.arg2 = 2
    /\ \E k \in DOMAIN addresses_db : addresses_db[k].id = 2 /\ addresses_db[k].is_primary
    /\ Cardinality({k \in DOMAIN addresses_db : addresses_db[k].user_id = 1}) >= 2

(***************************************************************************)
(* Claims about the resource modules (SpecUsers, Spec).                    *)
(***************************************************************************)
Ids(db) == {db[k].id : k \in DOMAIN db}

\* C4: a fresh instance holds exactly the users 1, 2, 3 and its first create_user
\* returns id 4; the record create_user returns is what get_user returns on its
\* id; a user get_user finds is still found, under the same id, after every step
\* that is not a delete_user of that id, with the same fields unless the step is
\* an update_user of that id; and right after delete_user of an id, get_user on it
\* is 404.
C4_Step ==
    /\ nops = 0 =>
         /\ Ids(users_db) = {1, 2, 3} /\ Len(users_db) = 3
         /\ response'.handler = "create_user" => response'.body[1].id = 4
    /\ response'.handler = "create_user" =>
         /\ response'.status = 200
         /\ \E id \in 1..(Len(users_db) + 4) :
              /\ response'.body[1].id = id
              /\ get_user(id)'.status = 200
              /\ get_user(id)'.body = response'.body
    /\ \A id \in UserIds :
         (/\ get_user(id).status = 200
          /\ ~(response'.handler = "delete_user" /\ response'.arg1 = id))
         => /\ get_user(id)'.status = 200
            /\ get_user(id)'.body[1].id = id
            /\ ~(response'.handler = "update_user" /\ response'.arg1 = id)
                 => get_user(id)'.body = get_user(id).body
    /\ \A id \in UserIds :
         (response'.handler = "delete_user" /\ response'.status = 200 /\ response'.arg1 = id)
         => /\ get_user(id)'.status = 404
            /\ get_user(id)'.detail = "User not found"

C4_CreatedUntilDeleted == [][C4_Step]_vars

\* C4's case: user 4, which only a create_user can have made, has just been
\* deleted, and get_user on 4 is 404.
C4_Witness ==
    /\ response.handler = "delete_user"
    /\ response.status = 200
    /\ response.arg1 = 4
    /\ get_user(4).status = 404

\* A successful update of the record at index k of a collection: every field the
\* caller sent has the value sent, every other field its previous value.
Applied(before, after, input) ==
    /\ DOMAIN after = DOMAIN before
    /\ \A f \in DOMAIN before :
         IF f \in DOMAIN input THEN after[f] = input[f] ELSE after[f] = before[f]

\* The step of a successful update keyed by `key` on one collection: the target
\* record has the supplied fields applied, every other record is as it was.
UpdateFrame(db_before, db_after, key, target_key, input) ==
    /\ Len(db_after) = Len(db_before)
    /\ \A k \in DOMAIN db_before :
         IF db_before[k][key] = target_key
         THEN Applied(db_before[k], db_after[k], input)
         ELSE db_after[k] = db_before[k]

\* C8: a successful update changes only the fields the caller sent, on the target
\* record only; its id (user_id for a profile) is unchanged and so is every other
\* record, except that update_user_address with is_primary = true also sets
\* is_primary = false, and nothing else, on the same user's other addresses.
C8_Step ==
    /\ (response'.handler = "update_user" /\ response'.status = 200) =>
         /\ UpdateFrame(users_db, users_db', "id", response'.arg1, response'.input)
         /\ response'.body[1].id = response'.arg1
    /\ (response'.handler = "update_product" /\ response'.status = 200) =>
         /\ UpdateFrame(products_db, products_db', "id", response'.arg1, response'.input)
         /\ response'.body[1].id = response'.arg1
    /\ (response'.handler = "update_user_profile" /\ response'.status = 200) =>
         /\ UpdateFrame(profiles_db, profiles_db', "user_id", response'.arg1, response'.input)
         /\ response'.body[1].user_id = response'.arg1
    /\ (response'.handler = "update_user_address" /\ response'.status = 200) =>
         /\ Len(addresses_db') = Len(addresses_db)
         /\ response'.body[1].id = response'.arg2
         /\ response'.body[1].user_id = response'.arg1
         /\ \A k \in DOMAIN addresses_db :
              IF addresses_db[k].id = response'.arg2
              THEN Applied(addresses_db[k], addresses_db'[k], response'.input)
              ELSE IF /\ GetIsPrimary(response'.input)
                      /\ addresses_db[k].user_id = response'.arg1
              THEN addresses_db'[k] = [addresses_db[k] EXCEPT !.is_primary = FALSE]
              ELSE addresses_db'[k] = addresses_db[k]

C8_UpdateChangesOnlySuppliedFields == [][C8_Step]_vars

\* C8's case: an update of user 1's second address that sent two fields, neither
\* of them is_primary: street and city changed, the rest is as seeded.
C8_Witness ==
    /\ response.handler = "update_user_address"
    /\ response.status = 200
    /\ DOMAIN response.input = {"street", "city"}
    /\ response.arg2 = 2
    /\ response.body[1].street = "9 Elm St"
    /\ response.body[1].zip_code = "94105"

\* No two records of a list have the same value of `key`.
UniqueKey(db, key) == \A j, k \in DOMAIN db : db[j][key] = db[k][key] => j = k

C7_CreatesInterleave ==
    \A c1, c2 \in Clients :
        (/\ c1 # c2
         /\ conn[c1].pc = "read"
         /\ conn[c2].pc = "ready" /\ conn[c2].handler = "create_user")
        => ENABLED CreateRead(c2)

\* C7 as amended: no lock guards users_db, but a create_user body has no await
\* between its read and its append, so the event loop runs it to its end before it
\* starts another handler: no two creates are between read and append at once,
\* the id a create has read is still max + 1 when it appends, and the ids stay
\* distinct.
C7_HandlerBodyIsAtomic ==
    /\ \A c1, c2 \in Clients : (conn[c1].pc = "read" /\ conn[c2].pc = "read") => c1 = c2
    /\ \A c \in Clients :
         conn[c].pc = "read" => /\ running = c
                                /\ new_id[c] = MaxOf(Ids(users_db)) + 1
    /\ UniqueKey(users_db, "id")

\* C7's case: two create_user requests in flight at once, one between its read
\* and its append, the other waiting for the loop.
C7_Witness ==
    \E c1, c2 \in Clients :
        /\ c1 # c2
        /\ conn[c1].pc = "read"
        /\ conn[c2].pc = "ready" /\ conn[c2].handler = "create_user"

\* The users handlers served concurrently by the event loop.
InitServe == InitCrud /\ InitReg /\ InitLoop /\ target = "users"

NextServe == \E c \in Clients : Receive(c) \/ CreateRead(c) \/ CreateAppend(c) \/ DeleteBody(c)

SpecServe == InitServe /\ [][NextServe]_vars
====
